---- MODULE Spec2Model ----
(***************************************************************************)
(* A model of the MySQL dump export engine of nging                        *)
(* (application/library/dbmanager/driver/mysql/mysql_export.go):           *)
(*   - the auto-increment strip (cleanRegExp, ResetAutoIncrement),         *)
(*   - the table selection read from the submitted form (mySQL.Export),    *)
(*   - Export: validation and the structure/data mysqldump passes,         *)
(*   - mySQL.Export: the job registry kept in `backgrounds`, the           *)
(*     foreground (inline) and background (file) modes, the archival.      *)
(***************************************************************************)
EXTENDS Integers, Sequences, FiniteSets, TLC

(***************************************************************************)
(* Bounds of the model.                                                    *)
(***************************************************************************)
\* longest file content given to ResetAutoIncrement
MaxContentLen == 4

\* how many times ResetAutoIncrement is applied to one file
MaxApply == 2

\* most values one form field (table, view) carries
MaxFormValues == 2

\* longest value of a form field, in symbols
MaxValueLen == 2

\* longest table list held by the request context or returned by getTables
MaxListLen == 2

\* the number of requests (calls of mySQL.Export, each with its worker)
NumReq == 2

\* the last reading of the clock
MaxClock == 2

(***************************************************************************)
(* Generic helpers.                                                        *)
(***************************************************************************)
SeqsUpTo(S, n) == UNION {[1..k -> S] : k \in 0..n}

RECURSIVE Drop(_, _)
Drop(s, n) == IF n = 0 \/ s = <<>> THEN s ELSE Drop(Tail(s), n - 1)

(***************************************************************************)
(* File contents for the auto-increment strip.  A content is a sequence of *)
(* symbols.  The 15 bytes "AUTO_INCREMENT=" are one symbol: the word has   *)
(* no proper border and holds none of the bytes the replacement writes     *)
(* except as the leading blank of a match, so matches of cleanRegExp can   *)
(* neither overlap inside the word nor be created inside it.               *)
(***************************************************************************)
SP == " "
NL == "\n"
AI == "AUTO_INCREMENT="
DIGIT == "7"
OTHERCH == "x"

ContentAlphabet == {SP, NL, AI, DIGIT, OTHERCH}

\* \s of Go's regexp (RE2): [\t\n\f\r ]
IsSpace(c) == c \in {SP, NL}

IsDigit(c) == c = DIGIT

\* length of the longest prefix of s made of digits: the greedy [0-9]*
RECURSIVE DigitRun(_)
DigitRun(s) == IF s # <<>> /\ IsDigit(Head(s)) THEN 1 + DigitRun(Tail(s)) ELSE 0

\* length of the longest prefix of s made of white space: the greedy \s*
RECURSIVE SpaceRun(_)
SpaceRun(s) == IF s # <<>> /\ IsSpace(Head(s)) THEN 1 + SpaceRun(Tail(s)) ELSE 0

\* cleanRegExp = ` AUTO_INCREMENT=[0-9]*\s*` anchored at the head of s:
\* 0 when there is no match there, else the number of symbols it consumes.
cleanRegExpMatchLen(s) ==
    IF Len(s) >= 2 /\ s[1] = SP /\ s[2] = AI
    THEN LET d == DigitRun(Drop(s, 2))
         IN  2 + d + SpaceRun(Drop(s, 2 + d))
    ELSE 0

\* whether cleanRegExp matches anywhere in s
RECURSIVE HasMatch(_)
HasMatch(s) ==
    /\ s # <<>>
    /\ \/ cleanRegExpMatchLen(s) > 0
       \/ HasMatch(Tail(s))

\* cleanRegExp.ReplaceAll(b, []byte(` `)): the leftmost matches, one after
\* the other without overlap, each replaced by one blank.
RECURSIVE ReplaceAll(_)
ReplaceAll(s) ==
    IF s = <<>> THEN <<>>
    ELSE LET n == cleanRegExpMatchLen(s)
         IN  IF n > 0
             THEN <<SP>> \o ReplaceAll(Drop(s, n))
             ELSE <<Head(s)>> \o ReplaceAll(Tail(s))

(***************************************************************************)
(* Strings are sequences of symbols; a one-symbol string is Str(x).        *)
(***************************************************************************)
Str(x) == <<x>>

COMMA == ","
COLON == ":"

\* the symbols a submitted form value is made of
FormAlphabet == {"a", "b", COMMA}

\* the index of the first sep in s, 0 when there is none
RECURSIVE IndexOf(_, _)
IndexOf(s, sep) ==
    IF s = <<>> THEN 0
    ELSE IF Head(s) = sep THEN 1
    ELSE LET i == IndexOf(Tail(s), sep) IN IF i = 0 THEN 0 ELSE i + 1

\* the 0-based index of the last sep in s, -1 when there is none:
\* strings.LastIndex
RECURSIVE LastIndex(_, _)
LastIndex(s, sep) ==
    IF s = <<>> THEN -1
    ELSE IF s[Len(s)] = sep THEN Len(s) - 1
    ELSE LastIndex(SubSeq(s, 1, Len(s) - 1), sep)

\* strings.Split(s, `,`)
RECURSIVE Split(_)
Split(s) ==
    LET i == IndexOf(s, COMMA)
    IN  IF i = 0 THEN <<s>>
        ELSE <<SubSeq(s, 1, i - 1)>> \o Split(SubSeq(s, i + 1, Len(s)))

\* an optional table list: ok is FALSE when there is none (the context holds
\* no []string, getTables returned an error)
NoList == [ok |-> FALSE, list |-> <<>>]

SomeList(l) == [ok |-> TRUE, list |-> l]

(***************************************************************************)
(* mySQL.Export, the table selection.  f is the submitted form:            *)
(*   all        Formx(`all`).Bool()                                        *)
(*   tableList  the context value `tableList`, NoList when it is no        *)
(*              []string                                                   *)
(*   getTables  what getTables() returns: a list, or NoList for an error   *)
(*   table, view  FormValues(`table`), FormValues(`view`)                  *)
(* The result is the list `tables`; ok is FALSE when getTables failed and  *)
(* the handler returned.                                                   *)
(***************************************************************************)
FormTables(f) ==
    IF f.all
    THEN IF f.tableList.ok THEN f.tableList ELSE f.getTables
    ELSE SomeList(
         LET t == IF Len(f.table) = 1 /\ Len(f.table[1]) > 0
                  THEN Split(f.table[1])
                  ELSE f.table
             v == IF Len(f.view) = 1 /\ Len(f.view[1]) > 0
                  THEN t \o Split(f.view[1])
                  ELSE f.view
         IN  IF Len(v) > 0 THEN t \o v ELSE t)

(***************************************************************************)
(* Export, lines 108-150: host and port from cfg.Host, then the argument   *)
(* list of mysqldump.  cfg is the driver.DbAuth record.                    *)
(***************************************************************************)
DefaultPort == Str("3306")

HostOf(cfg) ==
    LET p == LastIndex(cfg.Host, COLON)
    IN  IF p > 0 THEN SubSeq(cfg.Host, 1, p) ELSE cfg.Host

PortOf(cfg) ==
    LET p == LastIndex(cfg.Host, COLON)
        port == IF p > 0 THEN SubSeq(cfg.Host, p + 2, Len(cfg.Host)) ELSE <<>>
    IN  IF Len(port) = 0 THEN DefaultPort ELSE port

StructOpt == Str("-d")
DataOpt == Str("-t")

\* the fixed arguments, in the order of the source
ArgsTemplate(cfg) ==
    << <<"--default-character-set=">> \o cfg.Charset,
       Str("--single-transaction"),
       Str("--set-gtid-purged=OFF"),
       Str("--no-autocommit"),
       Str("--opt"),
       StructOpt,
       <<"-h">> \o HostOf(cfg),
       <<"-P">> \o PortOf(cfg),
       <<"-u">> \o cfg.Username,
       <<"-p">> \o cfg.Password,
       cfg.Db >>

\* typeOptIndex: the place of the first `-d` among the arguments (1-based)
typeOptIndex(args) == IndexOf(args, StructOpt)

\* args = append(args, tables...)
ExportArgs(cfg, tables) == ArgsTemplate(cfg) \o tables

\* PassArgs that never sets `-t`
PassArgsKeepsStruct(args, index) == args

\* the arguments of the pass with the given index: args[typeOptIndex] = `-t`
\* once index > 0 (the slice is shared by the passes, so it stays `-t`)
PassArgs(args, index) ==
    IF index > 0 THEN [args EXCEPT ![typeOptIndex(args)] = DataOpt] ELSE args

\* the recognized character sets (Charsets), and one that is not
Charsets == {Str("utf8"), Str("latin1")}

(***************************************************************************)
(* Values of the export machinery.                                         *)
(***************************************************************************)
Req == 1..NumReq

\* a writer handed to Export: nil, an io.Writer (closer: it is an io.Closer
\* too), a string (file path), or a value of any other type
NoPath == <<>>

NilWriter == [kind |-> "nil", closer |-> FALSE, path |-> NoPath]

StreamWriter(closer) == [kind |-> "stream", closer |-> closer, path |-> NoPath]

PathWriter(path) == [kind |-> "path", closer |-> TRUE, path |-> path]

OtherWriter == [kind |-> "other", closer |-> FALSE, path |-> NoPath]

\* driver.DbAuth
DbAuth(host, charset, db) ==
    [Host |-> host, Charset |-> charset, Username |-> Str("root"),
     Password |-> Str("secret"), Db |-> db]

NoCfg == DbAuth(<<>>, <<>>, <<>>)

\* the state of one call of Export
IdleCall ==
    [pc |-> "idle",        \* where the call stands
     index |-> 0,          \* the loop index: 0 structure, 1 data
     cfg |-> NoCfg, tables |-> <<>>,
     writers |-> <<NilWriter, NilWriter>>,
     reset |-> FALSE,      \* resetAutoIncrement
     args |-> <<>>,        \* the argument slice shared by the passes
     sink |-> <<"none", "none">>,  \* w of each pass: none, open, closed, plain
     closes |-> <<0, 0>>,  \* the Close calls on w of each pass
     pipe |-> "none",      \* stdout of the current pass
     proc |-> <<"none", "none">>,  \* the mysqldump of each pass
     cmds |-> <<>>,        \* the argument lists of the started subprocesses
     resets |-> <<>>,      \* the paths ResetAutoIncrement ran on
     ret |-> "none"]       \* the returned error, "nil" for none

\* one submitted request, as mySQL.Export reads it
Request(post, db, form, output, types, charset) ==
    [post |-> post, db |-> db, form |-> form, output |-> output,
     types |-> types, charset |-> charset]

NoRequest == Request(FALSE, <<>>, [all |-> FALSE, tableList |-> NoList,
                     getTables |-> NoList, table |-> <<>>, view |-> <<>>],
                     "", <<>>, <<>>)

\* com.Md5(com.Dump([]interface{}{tables, output, types}, false)): the digest
\* of the serialized triple, taken as free of collisions
cacheKeyOf(tables, output, types) == <<tables, output, types>>

NoKey == cacheKeyOf(<<>>, "", <<>>)

\* the local variables of one call of mySQL.Export
IdleHandler ==
    [pc |-> "idle", req |-> NoRequest, tables |-> <<>>, cacheKey |-> NoKey,
     exports |-> 0,        \* the map `exports` refers to, 0 before the load
     async |-> FALSE, sqlFiles |-> <<>>,
     structWriter |-> NilWriter, dataWriter |-> NilWriter,
     nowTime |-> 0,
     ret |-> "none"]       \* what the handler returned

\* the closure worker: where it stands, its local `now`, what it returned,
\* whether its deferred function has recovered a panic
IdleWorker ==
    [pc |-> "none", now |-> 0, zip |-> 0, ret |-> "none", recovered |-> FALSE]

\* FileInfo; Start, End are clock readings (0: the zero time), Size is 1
\* once measured
FileInfo(start, path, compressed) ==
    [Start |-> start, End |-> 0, Elapsed |-> 0, Path |-> path, Size |-> 0,
     Compressed |-> compressed, Error |-> ""]

\* the file names of lines 314, 324, 357 and 378
SqlPath(db, kind, nowTime) == <<db, kind, nowTime>>

\* the empty Go map
EmptyMap == [k \in {} |-> 0]

\* exports[key] = j
MapSet(m, key, j) ==
    [k \in DOMAIN m \cup {key} |-> IF k = key THEN j ELSE m[k]]

\* delete(exports, key)
MapDelete(m, key) == [k \in DOMAIN m \ {key} |-> m[k]]

\* com.InSlice(x, list)
InSlice(x, list) == \E i \in 1..Len(list) : list[i] = x

VARIABLES
    content,   \* the bytes of the structure file given to ResetAutoIncrement
    once,      \* the content left by the first successful application
    applied,   \* the number of successful applications so far
    resetErr,  \* whether an application failed (read or write error)
    form,      \* a submitted form (table selection)
    fpc,       \* "idle", "form" (submitted), "selected", "invoked", "rejected"
    selected,  \* the table list mySQL.Export derives from it
    invoked,   \* the arguments of the subprocess started for it
    call,      \* per request: the state of its call of Export
    cancelled, \* per request: whether the context of the call is done
    files,     \* the paths that exist in the file system
    hand,      \* per request: the handler mySQL.Export (its local variables)
    work,      \* per request: the closure `worker`
    fileInfos, \* per request: the FileInfos its handler allocated
    watch,     \* per request: the goroutine that watches clientGone and done
    clientGone,\* per request: whether CloseNotify has fired
    backgrounds, \* the value stored under OpExport: a map reference, 0 if none
    maps,      \* the maps allocated by the handlers: cacheKey -> request
    sidecar,   \* the manifests written beside the archives, by path
    now        \* the clock

stripVars == <<content, once, applied, resetErr>>

formVars == <<form, fpc, selected, invoked>>

exportVars == <<call, cancelled, files>>

jobVars ==
    <<hand, work, fileInfos, watch, clientGone, backgrounds, maps, sidecar,
      now>>

vars == <<stripVars, formVars, exportVars, jobVars>>

StripIdle == content = <<>> /\ once = <<>> /\ applied = 0 /\ resetErr = FALSE

EmptyForm ==
    [all |-> FALSE, tableList |-> NoList, getTables |-> NoList,
     table |-> <<>>, view |-> <<>>]

FormIdle ==
    form = EmptyForm /\ fpc = "idle" /\ selected = NoList /\ invoked = <<>>

ExportIdle ==
    /\ call = [j \in Req |-> IdleCall]
    /\ cancelled = [j \in Req |-> FALSE]
    /\ files = {}

JobIdle ==
    /\ hand = [j \in Req |-> IdleHandler]
    /\ work = [j \in Req |-> IdleWorker]
    /\ fileInfos = [j \in Req |-> <<>>]
    /\ watch = [j \in Req |-> "none"]
    /\ clientGone = [j \in Req |-> FALSE]
    /\ backgrounds = 0
    /\ maps = [j \in Req |-> EmptyMap]
    /\ sidecar = [q \in {} |-> <<>>]
    /\ now = 1

(***************************************************************************)
(* ResetAutoIncrement(sqlStructFile): read the file, replace, write back.  *)
(* A failed read returns the error and leaves the file alone; a failed     *)
(* write leaves a prefix of the new content.  The caller stops at the      *)
(* first error.                                                            *)
(***************************************************************************)
ResetAutoIncrement ==
    /\ UNCHANGED <<formVars, exportVars, jobVars>>
    /\ applied < MaxApply
    /\ ~resetErr
    /\ \E io \in {"ok", "readError", "writeError"} :
          LET b == ReplaceAll(content)
          IN  CASE io = "ok" ->
                     /\ content' = b
                     /\ applied' = applied + 1
                     /\ once' = IF applied = 0 THEN b ELSE once
                     /\ UNCHANGED resetErr
                [] io = "readError" ->
                     /\ resetErr' = TRUE
                     /\ UNCHANGED <<content, once, applied>>
                [] io = "writeError" ->
                     /\ \E k \in 0..Len(b) : content' = SubSeq(b, 1, k)
                     /\ resetErr' = TRUE
                     /\ UNCHANGED <<once, applied>>

StripInit ==
    /\ content \in SeqsUpTo(ContentAlphabet, MaxContentLen)
    /\ once = <<>>
    /\ applied = 0
    /\ resetErr = FALSE
    /\ FormIdle
    /\ ExportIdle
    /\ JobIdle

SpecStrip == StripInit /\ [][ResetAutoIncrement]_vars

(***************************************************************************)
(* The table selection of every form within the bounds, and the mysqldump  *)
(* invocation Export builds from it.                                       *)
(***************************************************************************)
FormValues == SeqsUpTo(SeqsUpTo(FormAlphabet, MaxValueLen), MaxFormValues)

TableNames == {Str("a"), Str("b")}

TableLists == SeqsUpTo(TableNames, MaxListLen)

OptLists == {SomeList(l) : l \in TableLists} \cup {NoList}

Forms ==
    [all : {FALSE}, tableList : {NoList}, getTables : {NoList},
     table : FormValues, view : FormValues]
    \cup
    [all : {TRUE}, tableList : OptLists, getTables : OptLists,
     table : {<<>>}, view : {<<>>}]

GoodCfg == DbAuth(Str("dbhost"), Str("utf8"), Str("shop"))

\* mySQL.Export lines 254-276
SelectTables ==
    /\ fpc = "form"
    /\ selected' = FormTables(form)
    /\ fpc' = "selected"
    /\ UNCHANGED <<form, invoked, stripVars, exportVars, jobVars>>

\* Export lines 97-160 for the structure pass: no invocation for an empty
\* list
InvokeDump ==
    /\ fpc = "selected"
    /\ selected.ok
    /\ IF Len(selected.list) = 0
       THEN fpc' = "rejected" /\ UNCHANGED invoked
       ELSE /\ fpc' = "invoked"
            /\ invoked' = PassArgs(ExportArgs(GoodCfg, selected.list), 0)
    /\ UNCHANGED <<form, selected, stripVars, exportVars, jobVars>>

FormNext == SelectTables \/ InvokeDump

FormInit ==
    /\ form \in Forms
    /\ fpc = "form"
    /\ selected = NoList
    /\ invoked = <<>>
    /\ StripIdle
    /\ ExportIdle
    /\ JobIdle

SpecForm == FormInit /\ [][FormNext]_vars

(***************************************************************************)
(* Export(ctx, cfg, tables, structWriter, dataWriter, resetAutoIncrement), *)
(* one action per step of the call of request j.                           *)
(***************************************************************************)
SetCall(j, c) == call' = [call EXCEPT ![j] = c]

Return(c, e) == [c EXCEPT !.pc = "returned", !.ret = e]

\* the pass the call is in, as an index of its sequences
Pass(c) == c.index + 1

\* clean that closes nothing
CleanNothing(c) == c

\* clean(w): close w if it is an io.Closer
Clean(c) ==
    IF c.sink[Pass(c)] \in {"open", "closed"}
    THEN [c EXCEPT !.sink[Pass(c)] = "closed", !.closes[Pass(c)] = @ + 1]
    ELSE c

\* stdout.Close()
ClosePipe(c) == [c EXCEPT !.pipe = "closed"]

\* the errors of lines 98 and 118
NoTableError == "No table selected for export"

CharsetError == "charset value invalid"

ValidationErrors == {NoTableError, CharsetError}

\* E_Validate without the check of the character set
E_ValidateNoCharset(j) ==
    LET c == call[j] IN
    /\ c.pc = "validate"
    /\ IF Len(c.tables) = 0
       THEN SetCall(j, Return(c, NoTableError))
       ELSE SetCall(j, [c EXCEPT !.pc = "loop", !.index = 0,
                                 !.args = ExportArgs(c.cfg, c.tables)])
    /\ UNCHANGED <<cancelled, files, stripVars, formVars, jobVars>>

\* lines 97-150: the two validations, then the argument list
E_Validate(j) ==
    LET c == call[j] IN
    /\ c.pc = "validate"
    /\ IF Len(c.tables) = 0
       THEN SetCall(j, Return(c, NoTableError))
       ELSE IF c.cfg.Charset \notin Charsets
       THEN SetCall(j, Return(c, CharsetError))
       ELSE SetCall(j, [c EXCEPT !.pc = "loop", !.index = 0,
                                 !.args = ExportArgs(c.cfg, c.tables)])
    /\ UNCHANGED <<cancelled, files, stripVars, formVars, jobVars>>

\* lines 152-193: the head of one iteration: skip a nil writer, set the
\* type option, resolve the writer into the sink w
E_Loop(j) ==
    LET c == call[j] IN
    /\ c.pc = "loop"
    /\ IF c.index = 2
       THEN SetCall(j, Return(c, "nil")) /\ UNCHANGED files
       ELSE LET wr == c.writers[Pass(c)]
                a == PassArgs(c.args, c.index)
            IN  CASE wr.kind = "nil" ->
                       /\ SetCall(j, [c EXCEPT !.index = @ + 1])
                       /\ UNCHANGED files
                  [] wr.kind = "stream" ->
                       /\ SetCall(j, [c EXCEPT !.args = a, !.pc = "pipe",
                                 !.sink[Pass(c)] =
                                     IF wr.closer THEN "open" ELSE "plain"])
                       /\ UNCHANGED files
                  [] wr.kind = "path" ->
                       \E io \in {"ok", "mkdirError", "createError"} :
                          IF io = "ok"
                          THEN /\ files' = files \cup {wr.path}
                               /\ SetCall(j, [c EXCEPT !.args = a,
                                     !.pc = "pipe", !.sink[Pass(c)] = "open"])
                          ELSE /\ SetCall(j, Return([c EXCEPT !.args = a], io))
                               /\ UNCHANGED files
                  [] wr.kind = "other" ->
                       /\ SetCall(j, Return([c EXCEPT !.args = a],
                                            "unsupported"))
                       /\ UNCHANGED files
    /\ UNCHANGED <<cancelled, stripVars, formVars, jobVars>>

\* lines 194-198: cmd.StdoutPipe()
E_Pipe(j) ==
    LET c == call[j] IN
    /\ c.pc = "pipe"
    /\ \E ok \in BOOLEAN :
          IF ok
          THEN SetCall(j, [c EXCEPT !.pc = "start", !.pipe = "open"])
          ELSE SetCall(j, Return(Clean(c), "pipeError"))
    /\ UNCHANGED <<cancelled, files, stripVars, formVars, jobVars>>

\* lines 199-203: cmd.Start(); a command whose context is done does not start
E_Start(j) ==
    LET c == call[j] IN
    /\ c.pc = "start"
    /\ \E ok \in BOOLEAN :
          IF ok /\ ~cancelled[j]
          THEN SetCall(j, [c EXCEPT !.pc = "copy",
                                    !.proc[Pass(c)] = "running",
                                    !.cmds = Append(@, c.args)])
          ELSE SetCall(j, Return(Clean(ClosePipe(c)), "startError"))
    /\ UNCHANGED <<cancelled, files, stripVars, formVars, jobVars>>

\* the running mysqldump ends by itself, with status 0 or not
P_Exit(j) ==
    LET c == call[j] IN
    /\ c.pc \in {"copy", "wait"}
    /\ c.proc[Pass(c)] = "running"
    /\ \E st \in {"exited0", "exited1"} :
          SetCall(j, [c EXCEPT !.proc[Pass(c)] = st])
    /\ UNCHANGED <<cancelled, files, stripVars, formVars, jobVars>>

\* exec.CommandContext: the running mysqldump is killed once the context is
\* done
P_Kill(j) ==
    LET c == call[j] IN
    /\ c.pc \in {"copy", "wait"}
    /\ c.proc[Pass(c)] = "running"
    /\ cancelled[j]
    /\ SetCall(j, [c EXCEPT !.proc[Pass(c)] = "killed"])
    /\ UNCHANGED <<cancelled, files, stripVars, formVars, jobVars>>

\* lines 204-208: io.Copy(w, stdout) ends at the end of the output (the
\* subprocess is gone) or with a read or write error
E_Copy(j) ==
    LET c == call[j] IN
    /\ c.pc = "copy"
    /\ \/ /\ c.proc[Pass(c)] # "running"
          /\ SetCall(j, [c EXCEPT !.pc = "wait"])
       \/ SetCall(j, Return(Clean(ClosePipe(c)), "copyError"))
    /\ UNCHANGED <<cancelled, files, stripVars, formVars, jobVars>>

\* E_Wait that goes on whatever the exit status
E_WaitIgnoresStatus(j) ==
    LET c == call[j] IN
    /\ c.pc = "wait"
    /\ c.proc[Pass(c)] # "running"
    /\ SetCall(j, [c EXCEPT !.pc = "release"])
    /\ UNCHANGED <<cancelled, files, stripVars, formVars, jobVars>>

\* lines 209-213: cmd.Wait()
E_Wait(j) ==
    LET c == call[j] IN
    /\ c.pc = "wait"
    /\ c.proc[Pass(c)] # "running"
    /\ IF c.proc[Pass(c)] = "exited0"
       THEN SetCall(j, [c EXCEPT !.pc = "release"])
       ELSE SetCall(j, Return(Clean(ClosePipe(c)), "waitError"))
    /\ UNCHANGED <<cancelled, files, stripVars, formVars, jobVars>>

\* lines 214-215: clean(w); stdout.Close()
E_Release(j) ==
    LET c == call[j] IN
    /\ c.pc = "release"
    /\ SetCall(j, [ClosePipe(Clean(c)) EXCEPT !.pc = "finish"])
    /\ UNCHANGED <<cancelled, files, stripVars, formVars, jobVars>>

\* onFinish that runs ResetAutoIncrement in the data pass too
RunsResetAnyPass(c) ==
    /\ c.writers[Pass(c)].kind = "path"
    /\ c.reset

\* onFinish of the pass, lines 182-190: set for a path writer only; it runs
\* ResetAutoIncrement for the structure pass when asked to
RunsReset(c) ==
    /\ c.writers[Pass(c)].kind = "path"
    /\ c.index = 0
    /\ c.reset

\* lines 216-221: the finalize hook, then the next iteration
E_Finish(j) ==
    LET c == call[j] IN
    /\ c.pc = "finish"
    /\ IF RunsReset(c)
       THEN \E ok \in BOOLEAN :
               LET d == [c EXCEPT !.resets =
                                     Append(@, c.writers[Pass(c)].path)]
               IN  IF ok
                   THEN SetCall(j, [d EXCEPT !.pc = "loop", !.index = @ + 1])
                   ELSE SetCall(j, Return(d, "resetError"))
       ELSE SetCall(j, [c EXCEPT !.pc = "loop", !.index = @ + 1])
    /\ UNCHANGED <<cancelled, files, stripVars, formVars, jobVars>>

\* the context of the call is cancelled by its owner
CancelCtx(j) ==
    /\ call[j].pc \notin {"idle", "returned"}
    /\ ~cancelled[j]
    /\ cancelled' = [cancelled EXCEPT ![j] = TRUE]
    /\ UNCHANGED <<call, files, stripVars, formVars, jobVars>>

ExportStep(j) ==
    \/ E_Validate(j)
    \/ E_Loop(j)
    \/ E_Pipe(j)
    \/ E_Start(j)
    \/ P_Exit(j)
    \/ P_Kill(j)
    \/ E_Copy(j)
    \/ E_Wait(j)
    \/ E_Release(j)
    \/ E_Finish(j)

(***************************************************************************)
(* One call of Export with every combination of arguments.                 *)
(***************************************************************************)
BadCfg == DbAuth(Str("dbhost"), Str("klingon"), Str("shop"))

StructPath == <<Str("shop"), "struct", 0>>

DataPath == <<Str("shop"), "data", 0>>

WritersOf(path) ==
    {NilWriter, StreamWriter(TRUE), StreamWriter(FALSE), PathWriter(path),
     OtherWriter}

ExportCalls ==
    {[IdleCall EXCEPT !.pc = "validate", !.cfg = cfg, !.tables = t,
                      !.writers = <<sw, dw>>, !.reset = r] :
        cfg \in {GoodCfg, BadCfg}, t \in TableLists,
        sw \in WritersOf(StructPath), dw \in WritersOf(DataPath),
        r \in BOOLEAN}

ExportInit ==
    /\ call \in {[j \in Req |-> IF j = 1 THEN c ELSE IdleCall] :
                    c \in ExportCalls}
    /\ cancelled = [j \in Req |-> FALSE]
    /\ files = {}
    /\ StripIdle
    /\ FormIdle
    /\ JobIdle

ExportNext == \E j \in Req : ExportStep(j) \/ CancelCtx(j)

SpecExport == ExportInit /\ [][ExportNext]_vars

(***************************************************************************)
(* mySQL.Export, the handler of one request j, and the closure `worker`.   *)
(***************************************************************************)
SetHand(j, h) == hand' = [hand EXCEPT ![j] = h]

SetWork(j, w) == work' = [work EXCEPT ![j] = w]

HReturn(h, r) == [h EXCEPT !.pc = "returned", !.ret = r]

WReturn(w, r) == [w EXCEPT !.pc = "done", !.ret = r]

\* m.Response(): an io.Writer, no io.Closer
Response == StreamWriter(FALSE)

\* m.DbAuth of the request, with cfg.Db = m.dbName (lines 334-335)
CfgOf(r) == DbAuth(Str("dbhost"), r.charset, r.db)

\* worker calls Export(ctx, &cfg, tables, structWriter, dataWriter, true)
StartCall(h) ==
    [IdleCall EXCEPT !.pc = "validate", !.cfg = CfgOf(h.req),
                     !.tables = h.tables,
                     !.writers = <<h.structWriter, h.dataWriter>>,
                     !.reset = TRUE]

\* the requests submitted in the model
TableForm(vals) ==
    [all |-> FALSE, tableList |-> NoList, getTables |-> NoList,
     table |-> vals, view |-> <<>>]

FormA == TableForm(<<Str("a")>>)

Utf8 == Str("utf8")

Shop == Str("shop")

\* the requests that run concurrently in Spec
Requests ==
    { Request(TRUE, Shop, FormA, "file", <<"struct">>, Utf8),
      Request(TRUE, Shop, FormA, "file", <<"data">>, Utf8),
      Request(TRUE, Shop, FormA, "file", <<>>, Utf8),
      Request(TRUE, Shop, FormA, "file", <<"struct">>, Str("klingon")),
      Request(TRUE, Shop, FormA, "open", <<"struct">>, Utf8),
      Request(TRUE, Shop, TableForm(<<>>), "open", <<"struct">>, Utf8) }

\* every kind of request: the one request of SpecOne is drawn from these
AllRequests ==
    Requests \cup
    { Request(TRUE, Shop, FormA, "file", <<"struct", "data">>, Utf8),
      Request(TRUE, Shop, FormA, "file", <<"data", "struct">>, Utf8),
      Request(TRUE, Shop, TableForm(<<>>), "file", <<"data">>, Utf8),
      Request(TRUE, Shop, FormA, "down", <<"struct", "data">>, Utf8),
      Request(TRUE, Shop, FormA, "open", <<"data">>, Str("klingon")),
      Request(TRUE, Shop, [FormA EXCEPT !.all = TRUE], "file", <<"struct">>,
              Utf8),
      Request(TRUE, <<>>, FormA, "file", <<"struct">>, Utf8),
      Request(FALSE, Shop, FormA, "file", <<"struct">>, Utf8) }

\* lines 248-279: the request is read and its fingerprint computed; the
\* requests are numbered in the order of their arrival
H_Submit(j, R) ==
    LET h == hand[j] IN
    /\ h.pc = "idle"
    /\ \A k \in 1..(j - 1) : hand[k].pc # "idle"
    /\ \E r \in R :
          LET t == FormTables(r.form)
              g == [h EXCEPT !.req = r]
          IN  IF ~r.post THEN SetHand(j, HReturn(g, "redirect"))
              ELSE IF Len(r.db) = 0 THEN SetHand(j, HReturn(g, "returnTo"))
              ELSE IF ~t.ok THEN SetHand(j, HReturn(g, "returnTo"))
              ELSE SetHand(j, [g EXCEPT !.pc = "load", !.tables = t.list,
                        !.cacheKey = cacheKeyOf(t.list, r.output, r.types)])
    /\ UNCHANGED <<work, fileInfos, watch, clientGone, backgrounds, maps,
                   sidecar, now, exportVars, stripVars, formVars>>

\* lines 281-286: backgrounds.Load(OpExport), or a new map of the handler's
H_Load(j) ==
    LET h == hand[j] IN
    /\ h.pc = "load"
    /\ SetHand(j, [h EXCEPT !.pc = "check",
                     !.exports = IF backgrounds # 0 THEN backgrounds ELSE j])
    /\ UNCHANGED <<work, fileInfos, watch, clientGone, backgrounds, maps,
                   sidecar, now, exportVars, stripVars, formVars>>

\* lines 287-289: the presence check
H_Check(j) ==
    LET h == hand[j] IN
    /\ h.pc = "check"
    /\ IF h.cacheKey \in DOMAIN maps[h.exports]
       THEN SetHand(j, HReturn(h, "already running"))
       ELSE SetHand(j, [h EXCEPT !.pc = "insert"])
    /\ UNCHANGED <<work, fileInfos, watch, clientGone, backgrounds, maps,
                   sidecar, now, exportVars, stripVars, formVars>>

\* lines 291-299: exports[cacheKey] = fileInfos; nowTime
H_Insert(j) ==
    LET h == hand[j] IN
    /\ h.pc = "insert"
    /\ maps' = [maps EXCEPT ![h.exports] = MapSet(@, h.cacheKey, j)]
    /\ SetHand(j, [h EXCEPT !.pc = "prepare", !.nowTime = now])
    /\ UNCHANGED <<work, fileInfos, watch, clientGone, backgrounds,
                   sidecar, now, exportVars, stripVars, formVars>>

\* lines 300-335 and, for the inline modes, 385-400: the writers of the
\* output mode; inline, the watcher goroutine starts and worker is called.
\* The two readings of the clock for Start are taken as one.
H_Prepare(j) ==
    LET h == hand[j]
        r == h.req
        hasS == InSlice("struct", r.types)
        hasD == InSlice("data", r.types)
    IN
    /\ h.pc = "prepare"
    /\ IF r.output \in {"down", "open"}
       THEN LET g == [h EXCEPT !.pc = "worker",
                       !.structWriter = IF hasS THEN Response ELSE NilWriter,
                       !.dataWriter = IF hasD THEN Response ELSE NilWriter]
            IN  /\ SetHand(j, g)
                /\ watch' = [watch EXCEPT ![j] = "running"]
                /\ SetWork(j, [IdleWorker EXCEPT !.pc = "export"])
                /\ call' = [call EXCEPT ![j] = StartCall(g)]
                /\ UNCHANGED <<fileInfos, now>>
       ELSE LET sf == SqlPath(r.db, "struct", h.nowTime)
                df == SqlPath(r.db, "data", h.nowTime)
                g == [h EXCEPT !.pc = "go", !.async = TRUE,
                       !.sqlFiles = (IF hasS THEN <<sf>> ELSE <<>>)
                                    \o (IF hasD THEN <<df>> ELSE <<>>),
                       !.structWriter =
                           IF hasS THEN PathWriter(sf) ELSE NilWriter,
                       !.dataWriter =
                           IF hasD THEN PathWriter(df) ELSE NilWriter]
            IN  /\ SetHand(j, g)
                /\ fileInfos' = [fileInfos EXCEPT ![j] =
                      (IF hasS THEN <<FileInfo(now, sf, FALSE)>> ELSE <<>>)
                      \o (IF hasD THEN <<FileInfo(now, df, FALSE)>> ELSE <<>>)]
                /\ UNCHANGED <<watch, work, call, now>>
    /\ UNCHANGED <<clientGone, backgrounds, maps, sidecar, cancelled, files,
                   stripVars, formVars>>

\* lines 404-407: go worker(m)
H_Go(j) ==
    LET h == hand[j] IN
    /\ h.pc = "go"
    /\ SetHand(j, [h EXCEPT !.pc = "set"])
    /\ SetWork(j, [IdleWorker EXCEPT !.pc = "export"])
    /\ call' = [call EXCEPT ![j] = StartCall(h)]
    /\ UNCHANGED <<fileInfos, watch, clientGone, backgrounds, maps, sidecar,
                   now, cancelled, files, stripVars, formVars>>

\* line 408: exports[cacheKey] = fileInfos, once more
H_Set(j) ==
    LET h == hand[j] IN
    /\ h.pc = "set"
    /\ maps' = [maps EXCEPT ![h.exports] = MapSet(@, h.cacheKey, j)]
    /\ SetHand(j, [h EXCEPT !.pc = "store"])
    /\ UNCHANGED <<work, fileInfos, watch, clientGone, backgrounds,
                   sidecar, now, exportVars, stripVars, formVars>>

\* lines 409-410: backgrounds.Store(OpExport, exports); the handler returns
H_Store(j) ==
    LET h == hand[j] IN
    /\ h.pc = "store"
    /\ backgrounds' = h.exports
    /\ SetHand(j, HReturn(h, "json"))
    /\ UNCHANGED <<work, fileInfos, watch, clientGone, maps,
                   sidecar, now, exportVars, stripVars, formVars>>

\* lines 401-402: done <- struct{}{} is taken by the watcher in its select;
\* both return
H_Send(j) ==
    LET h == hand[j] IN
    /\ h.pc = "worker"
    /\ work[j].pc = "done"
    /\ watch[j] = "running"
    /\ watch' = [watch EXCEPT ![j] = "returned"]
    /\ SetHand(j, HReturn(h, work[j].ret))
    /\ UNCHANGED <<work, fileInfos, clientGone, backgrounds, maps,
                   sidecar, now, exportVars, stripVars, formVars>>

\* lines 392-394: the watcher takes clientGone, cancels the context, returns
Wat_ClientGone(j) ==
    /\ watch[j] = "running"
    /\ clientGone[j]
    /\ watch' = [watch EXCEPT ![j] = "returned"]
    /\ cancelled' = [cancelled EXCEPT ![j] = TRUE]
    /\ UNCHANGED <<hand, work, fileInfos, clientGone, backgrounds, maps,
                   sidecar, now, call, files, stripVars, formVars>>

\* the client of an inline request goes away: CloseNotify fires, once
ClientGone(j) ==
    /\ hand[j].pc = "worker"
    /\ ~clientGone[j]
    /\ clientGone' = [clientGone EXCEPT ![j] = TRUE]
    /\ UNCHANGED <<hand, work, fileInfos, watch, backgrounds, maps,
                   sidecar, now, exportVars, stripVars, formVars>>

\* lines 342-347: Export has returned
W_Exported(j) ==
    LET w == work[j] IN
    /\ w.pc = "export"
    /\ call[j].pc = "returned"
    /\ IF call[j].ret # "nil" THEN SetWork(j, WReturn(w, call[j].ret))
       ELSE IF Len(hand[j].sqlFiles) > 0
       THEN SetWork(j, [w EXCEPT !.pc = "measure"])
       ELSE SetWork(j, WReturn(w, "nil"))
    /\ UNCHANGED <<hand, fileInfos, watch, clientGone, backgrounds, maps,
                   sidecar, now, exportVars, stripVars, formVars>>

\* lines 337-341: the worker panics after Export has returned or while it
\* measures the artifacts; the deferred function recovers and assigns the
\* captured variable err, and the closure, whose result has no name, returns
\* the zero value nil
W_Panic(j) ==
    LET w == work[j] IN
    /\ \/ w.pc = "export" /\ call[j].pc = "returned"
       \/ w.pc = "measure"
    /\ SetWork(j, [WReturn(w, "nil") EXCEPT !.recovered = TRUE])
    /\ UNCHANGED <<hand, fileInfos, watch, clientGone, backgrounds, maps,
                   sidecar, now, exportVars, stripVars, formVars>>

\* fi.End, fi.Size, fi.Error, fi.Elapsed of lines 350-355
Measured(fi, t) ==
    [fi EXCEPT !.End = t,
               !.Size = IF fi.Path \in files THEN 1 ELSE 0,
               !.Error = IF fi.Path \in files THEN "" ELSE "stat",
               !.Elapsed = t - fi.Start]

\* lines 348-356: every artifact is measured at the same reading `now`
W_Measure(j) ==
    LET w == work[j] IN
    /\ w.pc = "measure"
    /\ fileInfos' = [fileInfos EXCEPT ![j] =
                        [i \in 1..Len(@) |-> Measured(@[i], now)]]
    /\ SetWork(j, [w EXCEPT !.pc = "zip", !.now = now])
    /\ UNCHANGED <<hand, watch, clientGone, backgrounds, maps,
                   sidecar, now, exportVars, stripVars, formVars>>

ZipPath(h) == SqlPath(h.req.db, "zip", h.nowTime)

SidecarPath(h) == SqlPath(h.req.db, "zip.txt", h.nowTime)

Range(q) == {q[i] : i \in 1..Len(q)}

\* W_Zip with a failure path that releases the entry of the fingerprint,
\* as the success path does
W_ZipFailureReleases(j) ==
    LET w == work[j]
        h == hand[j]
    IN
    /\ w.pc = "zip"
    /\ \/ /\ Range(h.sqlFiles) \subseteq files
          /\ files' = files \cup {ZipPath(h)}
          /\ SetWork(j, [w EXCEPT !.pc = "remove"])
          /\ UNCHANGED maps
       \/ /\ \E partial \in BOOLEAN :
                files' = IF partial THEN files \cup {ZipPath(h)} ELSE files
          /\ maps' = [maps EXCEPT ![h.exports] = MapDelete(@, h.cacheKey)]
          /\ SetWork(j, WReturn(w, "zipError"))
    /\ UNCHANGED <<hand, fileInfos, watch, clientGone, backgrounds,
                   sidecar, now, call, cancelled, stripVars, formVars>>

\* lines 357-367: archiver.Zip.Make(zipFile, sqlFiles); it cannot succeed
\* without its sources, and a failure may leave a partial archive
W_Zip(j) ==
    LET w == work[j]
        h == hand[j]
    IN
    /\ w.pc = "zip"
    /\ \/ /\ Range(h.sqlFiles) \subseteq files
          /\ files' = files \cup {ZipPath(h)}
          /\ SetWork(j, [w EXCEPT !.pc = "remove"])
       \/ /\ \E partial \in BOOLEAN :
                files' = IF partial THEN files \cup {ZipPath(h)} ELSE files
          /\ SetWork(j, WReturn(w, "zipError"))
    /\ UNCHANGED <<hand, fileInfos, watch, clientGone, backgrounds, maps,
                   sidecar, now, call, cancelled, stripVars, formVars>>

\* lines 368-370: os.Remove of every sql file
W_Remove(j) ==
    LET w == work[j] IN
    /\ w.pc = "remove"
    /\ files' = files \ Range(hand[j].sqlFiles)
    /\ SetWork(j, [w EXCEPT !.pc = "append"])
    /\ UNCHANGED <<hand, fileInfos, watch, clientGone, backgrounds, maps,
                   sidecar, now, call, cancelled, stripVars, formVars>>

\* lines 358-362 and 371-376: the entry of the archive
ArchiveInfo(h, w, t) ==
    [FileInfo(w.now, ZipPath(h), TRUE) EXCEPT
        !.Size = IF ZipPath(h) \in files THEN 1 ELSE 0,
        !.Error = IF ZipPath(h) \in files THEN "" ELSE "stat",
        !.End = t,
        !.Elapsed = t - w.now]

\* the archive entry put in front of the artifacts
PrependArchive(infos, fi) == <<fi>> \o infos

\* line 377: *fileInfos = append(*fileInfos, fi)
AppendArchive(infos, fi) == Append(infos, fi)

\* lines 371-377: the archive is measured and its entry appended
W_Append(j) ==
    LET w == work[j] IN
    /\ w.pc = "append"
    /\ fileInfos' = [fileInfos EXCEPT ![j] =
                        AppendArchive(@, ArchiveInfo(hand[j], w, now))]
    /\ SetWork(j, [w EXCEPT !.pc = "sidecar"])
    /\ UNCHANGED <<hand, watch, clientGone, backgrounds, maps,
                   sidecar, now, exportVars, stripVars, formVars>>

\* line 378: ioutil.WriteFile(zipFile+`.txt`, dump of fileInfos); its error
\* is dropped
W_Sidecar(j) ==
    LET w == work[j]
        q == SidecarPath(hand[j])
    IN
    /\ w.pc = "sidecar"
    /\ \E ok \in BOOLEAN :
          IF ok
          THEN /\ sidecar' = [x \in DOMAIN sidecar \cup {q} |->
                                 IF x = q THEN fileInfos[j] ELSE sidecar[x]]
               /\ files' = files \cup {q}
          ELSE UNCHANGED <<sidecar, files>>
    /\ SetWork(j, [w EXCEPT !.pc = "release"])
    /\ UNCHANGED <<hand, fileInfos, watch, clientGone, backgrounds, maps,
                   now, call, cancelled, stripVars, formVars>>

\* lines 379-383: the entry of the fingerprint is deleted; worker returns nil
W_Release(j) ==
    LET w == work[j]
        h == hand[j]
    IN
    /\ w.pc = "release"
    /\ maps' = [maps EXCEPT ![h.exports] = MapDelete(@, h.cacheKey)]
    /\ SetWork(j, WReturn(w, "nil"))
    /\ UNCHANGED <<hand, fileInfos, watch, clientGone, backgrounds,
                   sidecar, now, exportVars, stripVars, formVars>>

\* time passes
Tick ==
    /\ now < MaxClock
    /\ now' = now + 1
    /\ UNCHANGED <<hand, work, fileInfos, watch, clientGone, backgrounds,
                   maps, sidecar, exportVars, stripVars, formVars>>

\* a request in flight: its handler or its worker has not returned
InFlight(j) ==
    \/ hand[j].pc \notin {"idle", "returned"}
    \/ work[j].pc \notin {"none", "done"}

HandlerStep(j) ==
    \/ H_Load(j)
    \/ H_Check(j)
    \/ H_Insert(j)
    \/ H_Prepare(j)
    \/ H_Go(j)
    \/ H_Set(j)
    \/ H_Store(j)
    \/ H_Send(j)

WorkerStep(j) ==
    \/ W_Exported(j)
    \/ W_Panic(j)
    \/ W_Measure(j)
    \/ W_Zip(j)
    \/ W_Remove(j)
    \/ W_Append(j)
    \/ W_Sidecar(j)
    \/ W_Release(j)

Init ==
    /\ JobIdle
    /\ ExportIdle
    /\ StripIdle
    /\ FormIdle

Next ==
    \/ \E j \in Req :
          \/ H_Submit(j, Requests)
          \/ HandlerStep(j)
          \/ WorkerStep(j)
          \/ ExportStep(j)
          \/ Wat_ClientGone(j)
          \/ ClientGone(j)
    \/ Tick

Spec == Init /\ [][Next]_vars

(***************************************************************************)
(* One request, of any kind, in a process that has served requests before: *)
(* the registry is unpublished, or it is the map an earlier request        *)
(* published (the map of the last request number, which stays idle here),  *)
(* empty or still holding the entry an earlier job left in it.             *)
(***************************************************************************)
KeyOfRequest(r) == cacheKeyOf(FormTables(r.form).list, r.output, r.types)

PriorMaps ==
    {EmptyMap} \cup
    {MapSet(EmptyMap, KeyOfRequest(r), NumReq) : r \in AllRequests}

OneInit ==
    /\ hand = [j \in Req |-> IdleHandler]
    /\ work = [j \in Req |-> IdleWorker]
    /\ fileInfos = [j \in Req |-> <<>>]
    /\ watch = [j \in Req |-> "none"]
    /\ clientGone = [j \in Req |-> FALSE]
    /\ \/ backgrounds = 0 /\ maps = [j \in Req |-> EmptyMap]
       \/ /\ backgrounds = NumReq
          /\ \E m \in PriorMaps :
                maps = [j \in Req |-> IF j = NumReq THEN m ELSE EmptyMap]
    /\ sidecar = [q \in {} |-> <<>>]
    /\ now = 1
    /\ ExportIdle
    /\ StripIdle
    /\ FormIdle

\* the steps of the goroutine that runs the handler of request j, inline
\* also its worker, and of the background goroutine of its worker
RequestStep(j) ==
    \/ HandlerStep(j)
    \/ WorkerStep(j)
    \/ ExportStep(j)

OneNext ==
    \/ H_Submit(1, AllRequests)
    \/ RequestStep(1)
    \/ Wat_ClientGone(1)
    \/ ClientGone(1)
    \/ Tick

SpecOne == OneInit /\ [][OneNext]_vars

\* the scheduler runs every goroutine that can take a step, and a started
\* mysqldump ends or is killed
FairOne ==
    /\ OneInit
    /\ [][OneNext]_vars
    /\ WF_vars(RequestStep(1))
    /\ WF_vars(Wat_ClientGone(1))

(***************************************************************************)
(* Properties.                                                             *)
(***************************************************************************)
\* request j has passed the presence check and has not finished
Proceeding(j) ==
    \/ hand[j].pc \in {"insert", "prepare", "go", "set", "store", "worker"}
    \/ work[j].pc \notin {"none", "done"}

\* the published registry holds the entry request j put under its fingerprint
HoldsEntry(j) ==
    /\ backgrounds # 0
    /\ hand[j].cacheKey \in DOMAIN maps[backgrounds]
    /\ maps[backgrounds][hand[j].cacheKey] = j

\* the map request j works on holds its entry
MapHolds(j) ==
    /\ hand[j].exports # 0
    /\ hand[j].cacheKey \in DOMAIN maps[hand[j].exports]
    /\ maps[hand[j].exports][hand[j].cacheKey] = j

Inline(j) == hand[j].req.output \in {"down", "open"}

\* C1: of two requests with the same fingerprint that are in flight together
\* only one proceeds past the presence check; the one rejected as already
\* running starts no subprocess.
C1_OneOfTwoProceeds ==
    /\ \A j, k \in Req :
          j # k /\ Proceeding(j) /\ Proceeding(k)
             => hand[j].cacheKey # hand[k].cacheKey
    /\ \A j \in Req :
          hand[j].ret = "already running" => call[j].cmds = <<>>

\* C2: once the worker of a background export has returned nil and its
\* handler has returned, the registry holds no entry of that job.
C2_EntryRemovedOnSuccess ==
    \A j \in Req :
       /\ hand[j].async
       /\ hand[j].pc = "returned"
       /\ work[j].pc = "done"
       /\ work[j].ret = "nil"
       => ~HoldsEntry(j)

\* a sink of the call of request j is still open
OpenSink(j) == \E i \in 1..2 : call[j].sink[i] = "open"

\* the mysqldump of request j was killed by the cancellation of its context
Killed(j) == \E i \in 1..2 : call[j].proc[i] = "killed"

\* C3: when the client-gone signal has terminated the running subprocess of
\* a foreground export, the handler eventually returns an error and no sink
\* is left open.
C3_CancelledCallReturns ==
    \A j \in Req :
       Killed(j) ~>
          (hand[j].pc = "returned" /\ hand[j].ret # "nil" /\ ~OpenSink(j))

\* C4: after an inline (open, down) call has returned, the shared registry
\* holds no entry of it.
C4_InlineLeavesNoEntry ==
    \A j \in Req :
       hand[j].pc = "returned" /\ Inline(j) => ~HoldsEntry(j)

\* C5: a call of Export with an empty table list or an unrecognized
\* character set only validates and returns the validation error: it starts
\* no subprocess, obtains no sink and creates no file.
C5_ValidationBeforeSubprocess ==
    \A j \in Req :
       LET c == call[j] IN
       c.pc # "idle" /\ (Len(c.tables) = 0 \/ c.cfg.Charset \notin Charsets)
       => /\ c.pc \in {"validate", "returned"}
          /\ c.pc = "returned" => c.ret \in ValidationErrors
          /\ c.cmds = <<>>
          /\ \A i \in 1..2 : c.proc[i] = "none" /\ c.sink[i] = "none"
          /\ \A i \in 1..2 : c.writers[i].path \notin files

\* a call rejected for its character set although both writers are paths
C5_Witness ==
    \E j \in Req :
       /\ call[j].pc = "returned"
       /\ call[j].ret = CharsetError
       /\ \A i \in 1..2 : call[j].writers[i].kind = "path"

\* the worker of request j returned a validation error
ValidationRejected(j) ==
    work[j].pc = "done" /\ work[j].ret \in ValidationErrors

\* C6: a request rejected by validation leaves nothing behind: no entry in
\* the registry, no manifest entry, no artifact file.
C6_RejectedHasNoEffects ==
    \A j \in Req :
       ValidationRejected(j) /\ hand[j].pc = "returned"
       => /\ ~HoldsEntry(j)
          /\ fileInfos[j] = <<>>
          /\ Range(hand[j].sqlFiles) \cap files = {}

\* the values of one form field in the order supplied: a single value is a
\* comma-separated list
Supplied(vals) ==
    IF Len(vals) = 1 /\ Len(vals[1]) > 0 THEN Split(vals[1]) ELSE vals

\* the tables and views the form selects, in the order supplied
SuppliedTables(f) ==
    IF f.all
    THEN (IF f.tableList.ok THEN f.tableList.list ELSE f.getTables.list)
    ELSE Supplied(f.table) \o Supplied(f.view)

\* C7: the arguments of the subprocess end with the selected tables and
\* views, each once, in the order supplied.
C7_TablesOnceInOrder ==
    fpc = "invoked"
       => Drop(invoked, Len(ArgsTemplate(GoodCfg))) = SuppliedTables(form)

\* C8: after one application of ResetAutoIncrement nothing matches
\* cleanRegExp any more, and a second application changes nothing.
C8_StripIdempotent ==
    ~resetErr
       => /\ applied >= 1 => ~HasMatch(content)
          /\ applied = 2 => content = once

RequestedKinds(r) == {x \in {"struct", "data"} : InSlice(x, r.types)}

KindsInOrder(r) ==
    (IF "struct" \in RequestedKinds(r) THEN <<"struct">> ELSE <<>>)
    \o (IF "data" \in RequestedKinds(r) THEN <<"data">> ELSE <<>>)

\* the manifest m of request r: its artifacts, structure then data, each
\* measured, then the archive, the only compressed entry; end times ascend
ManifestOK(m, r) ==
    LET ks == KindsInOrder(r) IN
    /\ Len(ks) >= 1
    /\ Len(m) = Len(ks) + 1
    /\ \A i \in 1..Len(ks) :
          m[i].Path[2] = ks[i] /\ ~m[i].Compressed /\ m[i].End # 0
    /\ m[Len(m)].Compressed
    /\ m[Len(m)].Path[2] = "zip"
    /\ \A i \in 1..(Len(m) - 1) : m[i].End <= m[i + 1].End

HasArchiveEntry(j) == \E i \in 1..Len(fileInfos[j]) : fileInfos[j][i].Compressed

\* C9: every manifest written to a sidecar is the manifest of a request with
\* k = 1 or 2 kinds and has k+1 entries, artifacts first (structure, data),
\* the archive last and alone compressed, end times ascending; the archive
\* entry is appended only after the archive was made and every artifact
\* measured.
C9_ManifestShape ==
    /\ \A q \in DOMAIN sidecar :
          \E j \in Req :
             /\ q = SidecarPath(hand[j])
             /\ sidecar[q] = fileInfos[j]
             /\ ManifestOK(sidecar[q], hand[j].req)
    /\ \A j \in Req :
          HasArchiveEntry(j)
          => /\ work[j].pc \in {"sidecar", "release", "done"}
             /\ ManifestOK(fileInfos[j], hand[j].req)

\* a sidecar with three entries, the archive finished after the artifacts
C9_Witness ==
    \E q \in DOMAIN sidecar :
       Len(sidecar[q]) = 3 /\ sidecar[q][3].End > sidecar[q][2].End

\* C10: when archiver.Zip.Make fails the worker returns the error; that step
\* writes no sidecar, deletes no file, appends no entry and leaves the
\* registry alone, and the manifest of the failed job never gets an archive
\* entry.
C10_ZipFailureKeepsAll ==
    /\ [](\A j \in Req :
             work[j].ret = "zipError"
             => /\ work[j].pc = "done"
                /\ ~HasArchiveEntry(j)
                /\ Len(fileInfos[j]) = Len(hand[j].sqlFiles))
    /\ [][\A j \in Req :
             work[j].pc = "zip" /\ work'[j].pc = "done"
             => /\ work'[j].ret = "zipError"
                /\ sidecar' = sidecar
                /\ files \subseteq files'
                /\ fileInfos' = fileInfos
                /\ MapHolds(j)'
                /\ maps' = maps
                /\ backgrounds' = backgrounds]_vars

\* a background job with two artifacts whose archive could not be made, its
\* handler returned, its entry still in the registry
C10_Witness ==
    \E j \in Req :
       /\ work[j].ret = "zipError"
       /\ hand[j].pc = "returned"
       /\ Len(hand[j].sqlFiles) = 2
       /\ HoldsEntry(j)
       /\ Range(hand[j].sqlFiles) \subseteq files

\* s and t hold the same elements, each as often
IsPermutation(s, t) ==
    /\ Len(s) = Len(t)
    /\ \A i \in 1..Len(s) :
          Cardinality({k \in 1..Len(s) : s[k] = s[i]})
             = Cardinality({k \in 1..Len(t) : t[k] = s[i]})

\* two fingerprints of the same effective parameters: equal output mode,
\* tables and types permutations of each other
SameParameters(k1, k2) ==
    /\ k1[2] = k2[2]
    /\ IsPermutation(k1[1], k2[1])
    /\ IsPermutation(k1[3], k2[3])

\* C11: a request whose tables and types are permutations of those of an
\* entry held in the registry (same output mode) has the fingerprint of that
\* entry, so it does not pass the presence check.
C11_PermutationsShareKey ==
    \A j \in Req :
       Proceeding(j)
       => \A k \in DOMAIN maps[hand[j].exports] :
             maps[hand[j].exports][k] # j
                => ~SameParameters(k, hand[j].cacheKey)

\* the background worker of request j is running
WorkerRunning(j) == hand[j].async /\ work[j].pc \notin {"none", "done"}

\* C12: while the worker of a background export runs, the map published
\* under OpExport holds the entry of that job.
C12_EntryHeldWhileRunning ==
    \A j \in Req : WorkerRunning(j) => HoldsEntry(j)

\* the errors a pass of Export can end with
PassErrors ==
    {"mkdirError", "createError", "unsupported", "pipeError", "startError",
     "copyError", "waitError", "resetError"}

\* C13: the passes of a call run one after the other: never two live
\* subprocesses; the data subprocess exists only once the structure
\* subprocess, if there is one, has exited with status 0 and its sink is
\* released; while the call is in its structure pass, and so when that pass
\* has failed, there is no data subprocess, no data sink and no data file.
C13_PassesSequential ==
    \A j \in Req :
       LET c == call[j] IN
       /\ ~(c.proc[1] = "running" /\ c.proc[2] = "running")
       /\ c.proc[2] # "none"
          => /\ c.index >= 1
             /\ c.proc[1] \in {"none", "exited0"}
             /\ c.proc[1] = "none" <=> c.writers[1].kind = "nil"
             /\ c.sink[1] \in {"none", "closed", "plain"}
             /\ c.sink[1] = "closed" => c.closes[1] = 1
       /\ c.index = 0
          => /\ c.proc[2] = "none"
             /\ c.sink[2] = "none"
             /\ c.writers[2].kind = "path" => c.writers[2].path \notin files
       /\ c.pc = "returned" /\ c.ret \in PassErrors /\ c.index = 0
          => Len(c.cmds) <= 1

\* the finalize hook of the structure pass failed after a successful dump,
\* the data writer being a path
C13_Witness ==
    \E j \in Req :
       /\ call[j].pc = "returned"
       /\ call[j].ret = "resetError"
       /\ call[j].proc[1] = "exited0"
       /\ call[j].writers[2].kind = "path"

\* the passes of call c whose subprocess was started
Started(c) == {i \in 1..2 : c.proc[i] # "none"}

\* the arguments the subprocess of pass i of call c was started with
CmdOf(c, i) == IF i = 1 THEN c.cmds[1] ELSE c.cmds[Len(c.cmds)]

\* the arguments pass i is to have: those of the template and the tables,
\* with the type option of the pass at the place of `-d` in the template
ExpectedCmd(c, i) ==
    [ArgsTemplate(c.cfg) \o c.tables
        EXCEPT ![typeOptIndex(ArgsTemplate(c.cfg))] =
                  IF i = 1 THEN StructOpt ELSE DataOpt]

\* C14: Export starts one subprocess per writer that is not nil (all of them
\* once it has returned nil); the structure invocation carries `-d`, the
\* data invocation `-t` at the same place, none carries both, and all other
\* arguments are those of the template and the table list.
C14_OneCommandPerWriter ==
    \A j \in Req :
       LET c == call[j] IN
       /\ Len(c.cmds) = Cardinality(Started(c))
       /\ \A i \in Started(c) :
             /\ c.writers[i].kind \notin {"nil", "other"}
             /\ CmdOf(c, i) = ExpectedCmd(c, i)
             /\ ~(InSlice(StructOpt, CmdOf(c, i))
                     /\ InSlice(DataOpt, CmdOf(c, i)))
       /\ c.pc = "returned" /\ c.ret = "nil"
          => Started(c) = {i \in 1..2 : c.writers[i].kind # "nil"}

\* a call with the data writer only has returned nil
C14_Witness ==
    \E j \in Req :
       /\ call[j].pc = "returned"
       /\ call[j].ret = "nil"
       /\ call[j].writers[1].kind = "nil"
       /\ Len(call[j].cmds) = 1
       /\ InSlice(DataOpt, call[j].cmds[1])

\* C15: a sink is never closed twice; once its pass is over (the call has
\* returned or moved to the next pass) a closable sink is closed, exactly
\* once, so no created file is open when Export returns; the finalize hook
\* runs on a closed sink.
C15_SinkReleasedOnce ==
    \A j \in Req :
       LET c == call[j] IN
       \A i \in 1..2 :
          /\ c.closes[i] <= 1
          /\ c.closes[i] = 1 <=> c.sink[i] = "closed"
          /\ c.pc = "returned" \/ i < Pass(c) => c.sink[i] # "open"
          /\ c.writers[i].kind = "path" /\ c.writers[i].path \in files
                /\ (c.pc = "returned" \/ i < Pass(c))
             => c.sink[i] = "closed"
          /\ c.pc = "finish" /\ i = Pass(c) => c.sink[i] # "open"
          /\ Len(c.resets) > 0 => c.sink[1] = "closed"

\* a call that failed in cmd.Wait of the data pass after a structure pass
\* with the finalize hook: both files are closed
C15_Witness ==
    \E j \in Req :
       /\ call[j].pc = "returned"
       /\ call[j].ret = "waitError"
       /\ call[j].index = 1
       /\ call[j].closes = <<1, 1>>
       /\ Len(call[j].resets) = 1
       /\ \A i \in 1..2 : call[j].writers[i].kind = "path"

\* the structure pass of call c is over and has not failed
StructPassDone(c) == c.index >= 1

\* C16: ResetAutoIncrement runs at most once in a call, and it has run, on
\* the path of the structure writer, if and only if that writer is a path,
\* the reset flag is set and the structure pass has ended with its
\* subprocess exited with status 0 and its sink released; never on the
\* path of the data writer, for a stream, or in a failed pass.
C16_ResetOnlyStructure ==
    \A j \in Req :
       LET c == call[j] IN
       /\ Len(c.resets) <= 1
       /\ \A k \in 1..Len(c.resets) :
             /\ c.writers[1].kind = "path"
             /\ c.resets[k] = c.writers[1].path
             /\ c.writers[2].kind = "path" => c.resets[k] # c.writers[2].path
             /\ c.reset
             /\ c.proc[1] = "exited0"
             /\ c.sink[1] = "closed"
             /\ StructPassDone(c) \/ (c.pc = "returned" /\ c.ret = "resetError")
       /\ StructPassDone(c) /\ c.writers[1].kind = "path" /\ c.reset
          => c.resets = <<c.writers[1].path>>
       /\ c.writers[1].kind # "path" \/ ~c.reset => c.resets = <<>>

\* both passes ran into files, the flag set: the reset ran on the structure
\* file alone
C16_Witness ==
    \E j \in Req :
       /\ call[j].pc = "returned"
       /\ call[j].ret = "nil"
       /\ call[j].reset
       /\ \A i \in 1..2 : call[j].writers[i].kind = "path"
       /\ call[j].resets = <<call[j].writers[1].path>>

\* the manifest of request j records a failure
FailureRecorded(j) ==
    \E i \in 1..Len(fileInfos[j]) : fileInfos[j][i].Error # ""

\* C17: a worker that has recovered a panic returns an error, a foreground
\* call then returns an error too, and the manifest of a background job
\* records the failure.
C17_PanicReported ==
    \A j \in Req :
       work[j].recovered
       => /\ work[j].ret # "nil"
          /\ hand[j].pc = "returned" /\ Inline(j) => hand[j].ret # "nil"
          /\ hand[j].async => FailureRecorded(j)

\* the next step of the handler of request j writes the map it works on
\* (lines 297, 408), or reads it (line 287)
HandlerWrites(j) == hand[j].pc \in {"insert", "set"}

HandlerReads(j) == hand[j].pc = "check"

\* the next step of the background worker of request j reads the map and
\* deletes from it (lines 379-380)
WorkerWrites(j) == hand[j].async /\ work[j].pc = "release"

\* C18: no goroutine is about to write a fingerprint map that another
\* goroutine is about to read or write.
C18_NoConcurrentMapAccess ==
    \A j, k \in Req :
       /\ WorkerWrites(j) /\ (HandlerWrites(k) \/ HandlerReads(k))
          => hand[j].exports # hand[k].exports
       /\ j # k /\ HandlerWrites(j) /\ (HandlerWrites(k) \/ HandlerReads(k))
          => hand[j].exports # hand[k].exports
       /\ j # k /\ WorkerWrites(j) /\ WorkerWrites(k)
          => hand[j].exports # hand[k].exports

\* C19: a foreground handler that has started the watcher and the worker
\* eventually returns, with the result of the worker, and the watcher has
\* ended.
C19_ForegroundReturns ==
    \A j \in Req :
       (hand[j].pc = "worker")
          ~> (/\ hand[j].pc = "returned"
              /\ hand[j].ret = work[j].ret
              /\ watch[j] = "returned")

\* the files the background job of request j writes: its artifacts, its
\* archive and the sidecar of its manifest
JobPaths(j) ==
    Range(hand[j].sqlFiles)
       \cup (IF Len(hand[j].sqlFiles) > 0
             THEN {ZipPath(hand[j]), SidecarPath(hand[j])}
             ELSE {})

\* C20: two background jobs with different fingerprints that run at the
\* same time have no file path in common.
C20_DistinctPaths ==
    \A j, k \in Req :
       /\ j # k
       /\ WorkerRunning(j)
       /\ WorkerRunning(k)
       /\ hand[j].cacheKey # hand[k].cacheKey
       => JobPaths(j) \cap JobPaths(k) = {}

====
